---- MODULE Spec2Model ----
(***************************************************************************)
(* A model of internal/gps/pkgtree/digest.go: the line-ending normalising  *)
(* reader (lineEndingReader), the tree digest (DigestFromPathname) and the *)
(* vendor tree reconciliation (VerifyDepTree).                             *)
(*                                                                         *)
(* Strings are sequences of byte values, so that slicing, joining and      *)
(* formatting are computed and not assumed.  The SHA-256 accumulator h is  *)
(* the sequence of bytes written to it.                                    *)
(***************************************************************************)
EXTENDS Integers, Sequences, FiniteSets, TLC

\* ------------------------------------------------------------------ bytes
CR == 13
LF == 10
NUL == 0
Slash == 47
Digit0 == 48

\* ----------------------------------------------------------------- bounds
\* longest byte stream given to a lineEndingReader on its own
MaxLen == 6
\* largest caller buffer handed to lineEndingReader.Read
MaxBuf == 6
\* number of I/O operations that may fail in one run
MaxFaults == 1

\* ------------------------------------------------------------ error values
Nil == "nil"

\* a nil []byte: no digest
NoSum == <<>>
EOF == "EOF"
ErrRead == "read error"

\* ------------------------------------------------------------ generic helpers
Min(S) == CHOOSE x \in S : \A y \in S : x <= y

SeqsUpTo(S, n) == UNION { [1..k -> S] : k \in 0..n }

\* s[i:j] of Go, i and j 0-based, as a TLA+ sequence
Slice(s, i, j) == SubSeq(s, i + 1, j)

\* -------------------------------------------------------- lineEndingReader
\* bytes.Index(s, "\r\n"): the 0-based index of the first CR LF of s, or -1
Index(s) ==
  LET hits == { i \in 1..(Len(s) - 1) : s[i] = CR /\ s[i + 1] = LF }
  IN IF hits = {} THEN -1 ELSE Min(hits) - 1

\* line 194: prevIndex = index
NextPrevIndex(prevIndex, index) == index

\* a reader that forwards what it read
RemoveCRLFNothing(buf, prevIndex) == buf

\* lines 185-195: the loop that removes the CR of every CR LF of buf[:nr];
\* buf is the slice buf[:nr], so Len(buf) is nr
RECURSIVE RemoveCRLF(_, _)
RemoveCRLF(buf, prevIndex) ==
  LET index == Index(Slice(buf, prevIndex, Len(buf)))
  IN IF index = -1
       THEN buf
       ELSE RemoveCRLF(Slice(buf, 0, prevIndex + index)
                          \o Slice(buf, prevIndex + index + 1, Len(buf)),
                       NextPrevIndex(prevIndex, index))

\* the whole buffer is offered to the source
ReadRequestFull(prev, buflen) == buflen

\* lines 165-169: the number of bytes Read asks of its source
ReadRequest(prev, buflen) == IF prev THEN buflen - 1 ELSE buflen

\* lines 172-180: the withheld CR is put back when no LF follows it
InsertCR(prev, data) ==
  IF prev /\ data[1] # LF THEN <<CR>> \o data ELSE data

\* a reader that keeps the error of its source
EmitWithheldKeepErr(er) ==
  [bytes |-> <<CR>>, er |-> er, prevReadEndedCR |-> FALSE, removed |-> 0]

\* lines 202-209: the source gave nothing and a CR is withheld
EmitWithheld(er) ==
  [bytes |-> <<CR>>, er |-> Nil, prevReadEndedCR |-> FALSE, removed |-> 0]

\* lines 164-211: Read, given what f.src.Read(buf[:buflen]) returned (data,
\* er); bytes is buf[:nr] at the return, removed the number of CRs dropped
Read(prev, data, er) ==
  IF Len(data) > 0
    THEN LET b1 == InsertCR(prev, data)
             b2 == RemoveCRLF(b1, 0)
             ended == b2[Len(b2)] = CR
         IN [bytes |-> IF ended THEN Slice(b2, 0, Len(b2) - 1) ELSE b2,
             er |-> er,
             prevReadEndedCR |-> ended,
             removed |-> (Len(data) + (IF prev THEN 1 ELSE 0)) - Len(b2)]
    ELSE IF prev
           THEN EmitWithheld(er)
           ELSE [bytes |-> <<>>, er |-> er, prevReadEndedCR |-> prev,
                 removed |-> 0]

\* The results a source may give to a read of req bytes at offset pos.
\* "file" is an *os.File: some bytes, or nothing with io.EOF at the end, or
\* nothing with an error.  "reader" is any io.Reader: it may also return its
\* last bytes together with io.EOF, bytes together with an error, and
\* nothing with no error before its end.
SrcRead(kind, bytes, off, req, nfaults) ==
  LET rem == Len(bytes) - off
      most == IF req < rem THEN req ELSE rem
      some(k) == Slice(bytes, off, off + k)
  IN  { [data |-> some(k), er |-> Nil] : k \in 1..most }
      \cup (IF rem = 0 \/ req = 0
              THEN { [data |-> <<>>, er |-> IF req = 0 THEN Nil ELSE EOF] }
              ELSE {})
      \cup (IF kind = "reader" /\ rem > 0 /\ rem <= req
              THEN { [data |-> some(rem), er |-> EOF] }
              ELSE {})
      \cup (IF kind = "reader" /\ rem > 0
              THEN { [data |-> <<>>, er |-> Nil] }
              ELSE {})
      \cup (IF nfaults < MaxFaults
              THEN { [data |-> some(k), er |-> ErrRead] :
                       k \in 0..(IF kind = "reader" THEN most ELSE 0) }
              ELSE {})

\* ------------------------------------------------------------ path names
\* names of directory entries, as bytes
NameA == <<97>>
NameB == <<98>>
NameC == <<99>>
NameAB == <<97, 98>>
NameD == <<100>>
NameDot == <<46>>
NameDotDot == <<46, 46>>
NameVendor == <<118, 101, 110, 100, 111, 114>>
NameBzr == <<46, 98, 122, 114>>
NameGit == <<46, 103, 105, 116>>
NameHg == <<46, 104, 103>>
NameSvn == <<46, 115, 118, 110>>

\* lines 116 and 406: the names both walks pass over
SkipNames ==
  {NameDot, NameDotDot, NameVendor, NameBzr, NameGit, NameHg, NameSvn}

\* lines 21-27: pathSeparator, for a build whose filepath.Separator is '/'
pathSeparator == <<Slash>>

\* filepath.Clean for rooted names without . and .. elements: repeated
\* separators are merged and a trailing separator is removed
RECURSIVE Clean(_)
Clean(p) ==
  IF Len(p) <= 1 THEN p
  ELSE IF p[1] = Slash /\ p[2] = Slash THEN Clean(Tail(p))
  ELSE IF Len(p) = 2 /\ p[2] = Slash THEN <<p[1]>>
  ELSE <<p[1]>> \o Clean(Tail(p))

\* filepath.Join of two elements: empty elements are ignored, the rest is
\* joined by the separator and cleaned
Join(a, b) ==
  IF b = <<>> THEN Clean(a)
  ELSE IF a = <<>> THEN Clean(b)
  ELSE Clean(a \o pathSeparator \o b)

\* filepath.ToSlash where the separator is '/'
ToSlash(p) == p

\* strconv.FormatInt(n, 10) for n >= 0
RECURSIVE FormatInt(_)
FormatInt(n) ==
  IF n < 10 THEN <<Digit0 + n>>
  ELSE FormatInt(n \div 10) \o <<Digit0 + (n % 10)>>

\* byte-wise order of strings, as sort.Strings uses it
RECURSIVE StrLess(_, _)
StrLess(a, b) ==
  IF b = <<>> THEN FALSE
  ELSE IF a = <<>> THEN TRUE
  ELSE IF a[1] # b[1] THEN a[1] < b[1]
  ELSE StrLess(Tail(a), Tail(b))

\* a listing that is left in the order the directory gave it
SortStringsNot(names) == names

\* sort.Strings, lines 301-303
RECURSIVE SortStrings(_)
SortStrings(names) ==
  IF names = <<>> THEN <<>>
  ELSE LET least == CHOOSE i \in 1..Len(names) :
                      \A j \in 1..Len(names) :
                        names[i] = names[j] \/ StrLess(names[i], names[j])
       IN <<names[least]>>
          \o SortStrings(SubSeq(names, 1, least - 1)
                           \o SubSeq(names, least + 1, Len(names)))

\* the orders in which a set of names can be listed
Orders(S) ==
  { f \in [1..Cardinality(S) -> S] : \A n \in S : \E i \in DOMAIN f : f[i] = n }

\* the separator is written and the bytes are not
writeNullOnly(hash, data) == hash \o <<NUL>>

\* lines 213-219: writeBytesWithNull, as the hash after the write
writeBytesWithNull(hash, data) == hash \o data \o <<NUL>>

\* width of the modelled digest space
HashMod == 2

RECURSIVE SumBytes(_)
SumBytes(s) == IF s = <<>> THEN 0 ELSE s[1] + SumBytes(Tail(s))

\* h.Sum(nil), line 138: a fixed function of the bytes written to the hash;
\* SHA-256 is stood for by a one-byte checksum
Sum(hash) == <<(SumBytes(hash) + Len(hash)) % HashMod>>

\* ------------------------------------------------------------ file system
\* A file system is a function from absolute path names to nodes.  A node is
\* [kind, data]: data is the content of a "file" and the referent of a
\* "symlink"; "device" stands for every mode of skipModes.
Dir == [kind |-> "dir", data |-> <<>>]
File(content) == [kind |-> "file", data |-> content]
Symlink(referent) == [kind |-> "symlink", data |-> referent]
Device == [kind |-> "device", data |-> <<>>]

NoNode == [kind |-> "none", data |-> <<>>]

\* symbolic links followed while one name is resolved
MaxHops == 2

\* the index of the last separator of p, 0 if it has none
LastSlash(p) ==
  LET at == { i \in 1..Len(p) : p[i] = Slash }
  IN IF at = {} THEN 0 ELSE CHOOSE i \in at : \A j \in at : j <= i

\* filepath.Dir and filepath.Base of a clean rooted name
DirOf(p) == IF LastSlash(p) <= 1 THEN <<Slash>> ELSE SubSeq(p, 1, LastSlash(p) - 1)
BaseOf(p) == SubSeq(p, LastSlash(p) + 1, Len(p))

\* the name p stands for once the symbolic links in it are followed: those
\* of its directory always, that of its last element when follow is set
RECURSIVE Real(_, _, _, _)
Real(files, p, follow, hops) ==
  IF Len(p) <= 1 \/ LastSlash(p) = 0 THEN p
  ELSE LET d == Real(files, DirOf(p), TRUE, hops)
           q == Join(d, BaseOf(p))
       IN IF follow /\ hops > 0 /\ q \in DOMAIN files
               /\ files[q].kind = "symlink"
            THEN Real(files, Join(d, files[q].data), TRUE, hops - 1)
            ELSE q

\* the node os.Lstat(p) describes, NoNode when there is none
Lstat(files, p) ==
  LET q == Real(files, p, FALSE, MaxHops)
  IN IF q \in DOMAIN files THEN files[q] ELSE NoNode

\* the node os.Stat(p) and os.Open(p) reach, NoNode when there is none or
\* the links do not end
Stat(files, p) ==
  LET q == Real(files, p, TRUE, MaxHops)
  IN IF q \in DOMAIN files /\ files[q].kind # "symlink" THEN files[q]
                                                          ELSE NoNode

\* the names of the entries of directory p
ChildrenOf(files, p) ==
  { SubSeq(q, Len(p) + 2, Len(q)) : q \in { q \in DOMAIN files :
        /\ Len(q) > Len(p) + 1
        /\ SubSeq(q, 1, Len(p) + 1) = p \o <<Slash>>
        /\ \A i \in (Len(p) + 2)..Len(q) : q[i] # Slash } }

\* ------------------------------------------------------------------ state
VARIABLES
  pc,               \* position of the running call
  fs,               \* the file system
  prefix,           \* DigestFromPathname: prefix, once cleaned (line 59)
  pathnameQueue,    \* DigestFromPathname: pathnameQueue
  pathname,         \* DigestFromPathname: pathname
  fh,               \* the path names of the open file handles
  ret,              \* DigestFromPathname: what it returned, [sum, err]
  src,              \* the bytes of the stream behind the lineEndingReader
  srcKind,          \* "file" or "reader"
  pos,              \* offset of the source
  prevReadEndedCR,  \* lineEndingReader.prevReadEndedCR
  bufSize,          \* len(buf) of the caller of Read
  h,                \* bytes written to the destination of io.Copy
  written,          \* bytes io.Copy has written
  err,              \* error of the running call
  nreads,           \* non-empty reads of the source so far: 0, 1, 2, or 3
                    \* for more than two
  firstRead,        \* length of the first non-empty read of the source, while
                    \* there are at most two
  removed,          \* CRs dropped by Read so far
  faults,           \* failures injected so far
  failed,           \* the operations that have failed so far
  caller,           \* the function that called DigestFromPathname, if any
  vendorPathname,   \* VerifyDepTree: vendorPathname
  wantSums,         \* VerifyDepTree: wantSums
  status,           \* VerifyDepTree: status
  nodes,            \* VerifyDepTree: nodes; nodes[i] of Go is nodes[i + 1]
  queue,            \* VerifyDepTree: queue, as indices into nodes
  currentNode,      \* VerifyDepTree: currentNode, as an index into nodes
  childrenNames,    \* VerifyDepTree: the children still to be looked at
  vret,             \* VerifyDepTree: what it returned, [status, err]
  digested,         \* the paths DigestFromPathname was called for, with
                    \* the sum it returned, NoSum for none
  popped,           \* the path names of the nodes popped from the queue
  listed            \* the directories that were opened to be listed

readerVars == <<src, srcKind, pos, prevReadEndedCR, bufSize, nreads,
                firstRead, removed>>
digestVars == <<prefix, pathnameQueue, pathname, fh, ret>>
verifyVars == <<caller, vendorPathname, wantSums, status, nodes, queue,
                currentNode, childrenNames, vret, digested, popped, listed>>

vars == <<pc, fs, prefix, pathnameQueue, pathname, fh, ret, src, srcKind, pos,
          prevReadEndedCR, bufSize, h, written, err, nreads, firstRead,
          removed, faults, failed, caller, vendorPathname, wantSums, status,
          nodes, queue, currentNode, childrenNames, vret, digested, popped,
          listed>>

\* the bytes of a stream: CR, LF and a letter
Bytes == {CR, LF} \cup {97}

\* the buffers a caller passes to Read: the shortest, the shortest that
\* leaves room beside a withheld CR, and the longest
BufSizes == {1, 2, MaxBuf}

\* the buffer of io.Copy is 32 KiB, never as short as one byte
CopyBufSizes == {2, MaxBuf}

\* error values, by the operation that failed
ErrLstat == "cannot Lstat"
ErrReadlink == "cannot Readlink"
ErrOpen == "cannot Open"
ErrReaddirnames == "cannot Readdirnames"
ErrClose == "cannot Close"

\* whether an operation succeeds: any operation may fail while the budget
\* of failures lasts
Outcomes == IF faults < MaxFaults THEN {TRUE, FALSE} ELSE {TRUE}

NoDigest ==
  /\ prefix = <<>>
  /\ pathnameQueue = <<>>
  /\ pathname = <<>>
  /\ fh = {}
  /\ ret = [sum |-> NoSum, err |-> Nil]

NoVerify ==
  /\ caller = ""
  /\ vendorPathname = <<>>
  /\ wantSums = << >>
  /\ status = << >>
  /\ nodes = <<>>
  /\ queue = <<>>
  /\ currentNode = 0
  /\ childrenNames = <<>>
  /\ vret = [status |-> << >>, isNil |-> TRUE, err |-> Nil]
  /\ digested = << >>
  /\ popped = <<>>
  /\ listed = {}

\* newLineEndingReader(src), lines 157-159
NewReader(bytes, kind) ==
  /\ src' = bytes
  /\ srcKind' = kind
  /\ pos' = 0
  /\ prevReadEndedCR' = FALSE
  /\ nreads' = 0
  /\ firstRead' = 0
  /\ removed' = 0

\* newLineEndingReader(src) under io.Copy, lines 157-159 and 123
InitReader ==
  /\ pc = "copy"
  /\ fs = << >>
  /\ NoDigest
  /\ src \in SeqsUpTo(Bytes, MaxLen)
  /\ srcKind \in {"file", "reader"}
  /\ pos = 0
  /\ prevReadEndedCR = FALSE
  /\ bufSize \in BufSizes
  /\ h = <<>>
  /\ written = 0
  /\ err = Nil
  /\ nreads = 0
  /\ firstRead = 0
  /\ removed = 0
  /\ faults = 0
  /\ failed = {}
  /\ NoVerify

\* one turn of the loop of io.Copy(h, newLineEndingReader(fh)), line 123:
\* a Read of the lineEndingReader, the write of what it returned, and the
\* end of the loop on an error
CopyRead ==
  /\ pc = "copy"
  /\ \E r \in SrcRead(srcKind, src, pos,
                      ReadRequest(prevReadEndedCR, bufSize), faults) :
       LET res == Read(prevReadEndedCR, r.data, r.er)
       IN /\ pos' = pos + Len(r.data)
          /\ prevReadEndedCR' = res.prevReadEndedCR
          /\ h' = h \o res.bytes
          /\ written' = written + Len(res.bytes)
          /\ removed' = removed + res.removed
          /\ nreads' = IF Len(r.data) > 0 /\ nreads < 3 THEN nreads + 1
                                                        ELSE nreads
          /\ firstRead' = IF Len(r.data) = 0 THEN firstRead
                          ELSE IF nreads = 0 THEN Len(r.data)
                          ELSE IF nreads = 1 THEN firstRead ELSE 0
          /\ faults' = IF r.er = ErrRead THEN faults + 1 ELSE faults
          /\ failed' = IF r.er = ErrRead THEN failed \cup {"Read"} ELSE failed
          /\ pc' = IF res.er = Nil THEN "copy" ELSE "copied"
          /\ err' = IF res.er \in {Nil, EOF} THEN Nil ELSE res.er
  /\ UNCHANGED verifyVars
  /\ UNCHANGED <<fs, digestVars, src, srcKind, bufSize>>

NextReader == CopyRead

SpecReader == InitReader /\ [][NextReader]_vars

\* ------------------------------------------------------ DigestFromPathname
\* longest content of a file that is itself the root of a digest
MaxFile == 4

PrefixP == <<Slash, 112>>

\* what an entry of the digested directory can be
EntryKinds == {"none", "empty file", "file", "empty dir", "dir", "symlink",
               "device"}

\* the nodes an entry of kind k named n contributes under directory d
Entry(d, n, k) ==
  LET p == Join(d, n)
  IN CASE k = "none" -> << >>
       [] k = "empty file" -> (p :> File(<<>>))
       [] k = "file" -> (p :> File(<<97, CR, LF>>))
       [] k = "empty dir" -> (p :> Dir)
       [] k = "dir" -> (p :> Dir) @@ (Join(p, NameC) :> File(<<CR>>))
       [] k = "symlink" -> (p :> Symlink(NameC))
       [] k = "device" -> (p :> Device)

\* the referents of a symbolic link that is itself the root of a digest: the
\* name b and the name 0
LinkTargets == {NameB, <<Digit0>>}

\* the names and the contents of the file of a directory that holds one
\* file: the contents are of letters, the digit 1 and line endings
OneFileNames == {NameA, NameAB, NameB}
OneFileContents ==
  SeqsUpTo({LF, 98, 99, Digit0 + 1}, 2) \cup {<<CR, LF>>, <<98, CR, LF>>}

\* the trees whose root directory a holds exactly one regular file
OneFileTrees ==
  { (PrefixP :> Dir) @@ (Join(PrefixP, NameA) :> Dir)
      @@ (Join(Join(PrefixP, NameA), n) :> File(c)) :
      n \in OneFileNames, c \in OneFileContents }

\* the file systems DigestFromPathname is run on: under the prefix, the node
\* a is missing, a file of any content, a symbolic link, a device, a
\* directory of entries b, c and .hg, or a directory of one file
DigestFileSystems ==
  LET a == Join(PrefixP, NameA)
      base == (PrefixP :> Dir)
  IN {base}
     \cup { base @@ (a :> File(c)) : c \in SeqsUpTo(Bytes, MaxFile) }
     \cup { base @@ (a :> Symlink(t)) : t \in LinkTargets }
     \cup { base @@ (a :> Device) }
     \cup OneFileTrees
     \cup { base @@ (a :> Dir) @@ Entry(a, NameB, kb) @@ Entry(a, NameC, kc)
              @@ Entry(a, NameHg, kh) :
              kb \in EntryKinds, kc \in EntryKinds, kh \in {"none", "dir"} }

\* lines 50-63: the entry of DigestFromPathname(pre, name)
DigestEnter(pre, name) ==
  /\ prefix' = Clean(pre) \o pathSeparator
  /\ pathnameQueue' = <<Join(Clean(pre) \o pathSeparator, name)>>
  /\ pathname' = name
  /\ h' = <<>>
  /\ written' = 0

InitDigest ==
  /\ pc = "Lstat"
  /\ fs \in DigestFileSystems
  /\ prefix = Clean(PrefixP) \o pathSeparator
  /\ pathnameQueue = <<Join(Clean(PrefixP) \o pathSeparator, NameA)>>
  /\ pathname = NameA
  /\ fh = {}
  /\ ret = [sum |-> NoSum, err |-> Nil]
  /\ src = <<>>
  /\ srcKind = "file"
  /\ pos = 0
  /\ prevReadEndedCR = FALSE
  /\ bufSize \in CopyBufSizes
  /\ h = <<>>
  /\ written = 0
  /\ err = Nil
  /\ nreads = 0
  /\ firstRead = 0
  /\ removed = 0
  /\ faults = 0
  /\ failed = {}
  /\ NoVerify

\* a return of DigestFromPathname
DigestReturn(sum, e) ==
  /\ pc' = IF caller = "VerifyDepTree" THEN "digested" ELSE "done"
  /\ ret' = [sum |-> sum, err |-> e]

\* an operation op of the running step has failed with error e
Fail(op) ==
  /\ faults' = faults + 1
  /\ failed' = failed \cup {op}

\* lines 67-88 and 138: the queue is empty and the sum is returned, or the
\* next path name is taken and looked at with Lstat
DigestLstat ==
  /\ pc = "Lstat"
  /\ IF pathnameQueue = <<>>
       THEN /\ DigestReturn(Sum(h), Nil)
            /\ UNCHANGED <<pathnameQueue, pathname, h, err, faults, failed>>
       ELSE LET name == Head(pathnameQueue)
            IN /\ pathnameQueue' = Tail(pathnameQueue)
               /\ pathname' = name
               /\ \E ok \in Outcomes :
                    IF ~ok \/ Lstat(fs, name) = NoNode
                      THEN /\ DigestReturn(NoSum, ErrLstat)
                           /\ err' = ErrLstat
                           /\ IF ok THEN failed' = failed \cup {"Lstat"}
                                         /\ faults' = faults
                                    ELSE Fail("Lstat")
                           /\ h' = h
                      ELSE /\ UNCHANGED <<faults, failed, ret>>
                           /\ err' = Nil
                           /\ IF Lstat(fs, name).kind = "device"
                                THEN pc' = "Lstat" /\ h' = h
                                ELSE /\ h' = writeBytesWithNull(h,
                                            ToSlash(Slice(name, Len(prefix),
                                                          Len(name))))
                                     /\ pc' = IF Lstat(fs, name).kind = "symlink"
                                                THEN "Readlink" ELSE "Open"
  /\ UNCHANGED verifyVars
  /\ UNCHANGED <<fs, prefix, fh, readerVars, written>>

\* lines 90-99
DigestReadlink ==
  /\ pc = "Readlink"
  /\ \E ok \in Outcomes :
       IF ok
         THEN /\ h' = writeBytesWithNull(h, ToSlash(Lstat(fs, pathname).data))
              /\ pc' = "Lstat"
              /\ UNCHANGED <<ret, err, faults, failed>>
         ELSE /\ DigestReturn(NoSum, ErrReadlink)
              /\ err' = ErrReadlink
              /\ Fail("Readlink")
              /\ h' = h
  /\ UNCHANGED verifyVars
  /\ UNCHANGED <<fs, prefix, pathnameQueue, pathname, fh, readerVars, written>>

\* lines 103-108 and 123: Open, and for a file the new lineEndingReader and
\* the count of io.Copy, which starts at zero
DigestOpen ==
  /\ pc = "Open"
  /\ \E ok \in Outcomes :
       IF ok
         THEN /\ fh' = fh \cup {pathname}
              /\ UNCHANGED <<ret, err, faults, failed>>
              /\ IF Stat(fs, pathname).kind = "dir"
                   THEN pc' = "Readdir" /\ UNCHANGED <<readerVars, written>>
                   ELSE /\ pc' = "copy"
                        /\ NewReader(Stat(fs, pathname).data, "file")
                        /\ written' = 0
                        /\ UNCHANGED bufSize
         ELSE /\ DigestReturn(NoSum, ErrOpen)
              /\ err' = ErrOpen
              /\ Fail("Open")
              /\ UNCHANGED <<fh, readerVars, written>>
  /\ UNCHANGED verifyVars
  /\ UNCHANGED <<fs, prefix, pathnameQueue, pathname, h>>

\* every name of the listing is queued
EnqueueAll(q, dir, names) ==
  q \o [i \in 1..Len(names) |-> Join(dir, names[i])]

\* lines 114-121: the names that are queued
Enqueue(q, dir, names) ==
  q \o [i \in 1..Len(SelectSeq(names, LAMBDA n : n \notin SkipNames)) |->
          Join(dir, SelectSeq(names, LAMBDA n : n \notin SkipNames)[i])]

\* lines 109-121 and 296-305: the directory is listed, in any order, the
\* names are sorted and queued
DigestReaddir ==
  /\ pc = "Readdir"
  /\ \E ok \in Outcomes :
       IF ok
         THEN /\ \E names \in Orders(ChildrenOf(fs, Real(fs, pathname, TRUE, MaxHops))) :
                   pathnameQueue' =
                     Enqueue(pathnameQueue, pathname, SortStrings(names))
              /\ pc' = "Close"
              /\ UNCHANGED <<fh, ret, err, faults, failed>>
         ELSE /\ fh' = fh \ {pathname}
              /\ DigestReturn(NoSum, ErrReaddirnames)
              /\ err' = ErrReaddirnames
              /\ Fail("Readdirnames")
              /\ UNCHANGED pathnameQueue
  /\ UNCHANGED verifyVars
  /\ UNCHANGED <<fs, prefix, pathname, readerVars, h, written>>

\* lines 124-125: the error of io.Copy is wrapped and the number of bytes
\* written is written to the hash
DigestWritten ==
  /\ pc = "copied"
  /\ h' = writeBytesWithNull(h, FormatInt(written))
  /\ pc' = "Close"
  /\ UNCHANGED verifyVars
  /\ UNCHANGED <<fs, digestVars, readerVars, written, err, faults, failed>>

\* the error kept when Close returns er after a step that ended with e
CloseErrMasking(e, er) == IF er # Nil THEN er ELSE e

\* the result of Close is dropped
CloseErrIgnored(e, er) == e

\* lines 130-132
CloseErr(e, er) == IF e = Nil THEN er ELSE e

\* whether Close succeeds: after a step that ended with an error it may fail
\* as well, whatever has failed before
CloseOutcomes == IF err # Nil THEN {TRUE, FALSE} ELSE Outcomes

\* lines 128-135: the handle is closed; the call ends on an error
DigestClose ==
  /\ pc = "Close"
  /\ \E ok \in CloseOutcomes :
       LET e == CloseErr(err, IF ok THEN Nil ELSE ErrClose)
       IN /\ fh' = fh \ {pathname}
          /\ err' = e
          /\ IF ok THEN UNCHANGED <<faults, failed>> ELSE Fail("Close")
          /\ IF e # Nil THEN DigestReturn(NoSum, e)
                        ELSE pc' = "Lstat" /\ ret' = ret
  /\ UNCHANGED verifyVars
  /\ UNCHANGED <<fs, prefix, pathnameQueue, pathname, readerVars, h, written>>

NextDigest ==
  \/ DigestLstat
  \/ DigestReadlink
  \/ DigestOpen
  \/ DigestReaddir
  \/ CopyRead
  \/ DigestWritten
  \/ DigestClose

SpecDigest == InitDigest /\ [][NextDigest]_vars

\* ----------------------------------------------------------- VerifyDepTree
\* lines 225-246: VendorStatus
NotInLock == 0
NotInTree == 1
NoMismatch == 2
EmptyDigestInLock == 3
DigestMismatchInLock == 4

ErrStat == "cannot Stat"
ErrNotDir == "cannot verify non directory"
ErrDigest == "cannot compute dependency hash"

VendorRoot == <<Slash, 118>>

\* the project paths a lock can name: a, a/b, a/.hg and c
VerifyKeys == {NameA, Join(NameA, NameB), Join(NameA, NameHg), NameC}

\* the expected digests of a lock: the empty one and two values of the hash
DigestValues == {<<>>, <<0>>, <<1>>}

\* most projects of a lock
MaxKeys == 2

Tables ==
  UNION { [K -> DigestValues] :
            K \in { K \in SUBSET VerifyKeys : Cardinality(K) <= MaxKeys } }

\* the file systems VerifyDepTree is run on: the vendor root is missing, a
\* file, or a directory; in it a is missing, a file, a device, a symbolic
\* link to c, or a directory of entries b, d and .hg, and c is missing, a
\* file or a directory
VerifyFileSystems ==
  LET a == Join(VendorRoot, NameA)
      top == (<<Slash>> :> Dir)
      base == top @@ (VendorRoot :> Dir)
  IN {top, top @@ (VendorRoot :> File(<<>>))}
     \cup { base @@ Entry(VendorRoot, NameA, ka) @@ Entry(VendorRoot, NameC, kc) :
              ka \in {"none", "empty file", "device", "symlink"},
              kc \in {"none", "empty file", "dir"} }
     \cup { base @@ (a :> Dir) @@ Entry(a, NameB, kb) @@ Entry(a, NameD, kd)
              @@ Entry(a, NameHg, kh) @@ Entry(VendorRoot, NameC, kc) :
              kb \in {"none", "empty file", "empty dir", "dir"},
              kd \in {"none", "empty dir"},
              kh \in {"none", "dir"},
              kc \in {"none", "empty file", "dir"} }

InitVerify ==
  /\ pc = "Stat"
  /\ fs \in VerifyFileSystems
  /\ NoDigest
  /\ src = <<>>
  /\ srcKind = "file"
  /\ pos = 0
  /\ prevReadEndedCR = FALSE
  /\ bufSize = MaxBuf
  /\ h = <<>>
  /\ written = 0
  /\ err = Nil
  /\ nreads = 0
  /\ firstRead = 0
  /\ removed = 0
  /\ faults = 0
  /\ failed = {}
  /\ caller = ""
  /\ vendorPathname = VendorRoot
  /\ wantSums \in Tables
  /\ status = << >>
  /\ nodes = <<>>
  /\ queue = <<>>
  /\ currentNode = 0
  /\ childrenNames = <<>>
  /\ vret = [status |-> << >>, isNil |-> TRUE, err |-> Nil]
  /\ digested = << >>
  /\ popped = <<>>
  /\ listed = {}

\* a return of VerifyDepTree
VerifyReturn(st, e) ==
  /\ pc' = "returned"
  /\ vret' = [status |-> st, isNil |-> FALSE, err |-> e]

\* a return of VerifyDepTree with a nil map and error e
VerifyReturnErr(e) ==
  /\ pc' = "returned"
  /\ vret' = [status |-> << >>, isNil |-> TRUE, err |-> e]

\* currentNode.pathname[prefixLength:], lines 375 and 441
Short(node) == Slice(node.pathname, Len(vendorPathname), Len(node.pathname))

\* only the node itself is marked
MarkRequiredSelf(ns, pni) ==
  IF pni = -1 THEN ns ELSE [ns EXCEPT ![pni + 1].isRequiredAncestor = TRUE]

\* lines 390-395: the node pni and its ancestors are marked required
RECURSIVE MarkRequired(_, _)
MarkRequired(ns, pni) ==
  IF pni = -1 THEN ns
  ELSE MarkRequired([ns EXCEPT ![pni + 1].isRequiredAncestor = TRUE],
                    ns[pni + 1].parentIndex)

\* a comparison that accepts every digest
DigestStatusAny(projectSum, expectedSum) == NoMismatch

\* lines 379-386
DigestStatus(projectSum, expectedSum) ==
  IF projectSum = expectedSum THEN NoMismatch ELSE DigestMismatchInLock

\* every node that is not required is reported
ReportAll(st, ns, i) ==
  [k \in DOMAIN st \cup { Slice(ns[j].pathname, Len(ns[1].pathname),
                                Len(ns[j].pathname)) :
                            j \in { j \in 2..Len(ns) :
                                      ~ns[j].isRequiredAncestor } } |->
     IF \E j \in 2..Len(ns) :
          /\ ~ns[j].isRequiredAncestor
          /\ k = Slice(ns[j].pathname, Len(ns[1].pathname), Len(ns[j].pathname))
       THEN NotInLock ELSE st[k]]

\* lines 438-443: the backward pass over nodes[i], ..., nodes[1]
RECURSIVE Report(_, _, _)
Report(st, ns, i) ==
  IF i <= 0 THEN st
  ELSE LET n == ns[i + 1]
       IN Report(IF ~n.isRequiredAncestor
                      /\ ns[n.parentIndex + 1].isRequiredAncestor
                   THEN (Slice(n.pathname, Len(ns[1].pathname), Len(n.pathname))
                           :> NotInLock) @@ st
                   ELSE st,
                 ns, i - 1)

\* lines 310-367: the vendor root is looked at and the walk is set up
VerifyStat ==
  /\ pc = "Stat"
  /\ \E ok \in Outcomes :
       IF ~ok \/ Stat(fs, vendorPathname) = NoNode
         THEN /\ VerifyReturnErr(ErrStat)
              /\ failed' = failed \cup {"Stat"}
              /\ faults' = IF ok THEN faults ELSE faults + 1
              /\ UNCHANGED <<vendorPathname, nodes, queue, currentNode, status>>
         ELSE /\ UNCHANGED <<faults, failed>>
              /\ IF Stat(fs, vendorPathname).kind # "dir"
                   THEN /\ VerifyReturnErr(ErrNotDir)
                        /\ UNCHANGED <<vendorPathname, nodes, queue,
                                       currentNode, status>>
                   ELSE /\ vendorPathname' = Clean(vendorPathname) \o pathSeparator
                        /\ nodes' = <<[pathname |-> Clean(vendorPathname)
                                                      \o pathSeparator,
                                       isRequiredAncestor |-> TRUE,
                                       myIndex |-> 0, parentIndex |-> -1]>>
                        /\ queue' = <<0>>
                        /\ currentNode' = 0
                        /\ status' = [k \in DOMAIN wantSums |-> NotInTree]
                        /\ pc' = "pop"
                        /\ vret' = vret
  /\ UNCHANGED <<fs, digestVars, readerVars, h, written, err, caller, wantSums,
                 childrenNames, digested, popped, listed>>

\* lines 369-380 and 388-397: a node is popped; when its path is in the
\* lock, its digest is asked for, or, the expected digest being empty, its
\* status is recorded and its ancestors are marked
VerifyPop ==
  /\ pc = "pop"
  /\ queue # <<>>
  /\ LET cur == queue[Len(queue)]
         short == Short(nodes[cur + 1])
     IN /\ currentNode' = cur
        /\ queue' = SubSeq(queue, 1, Len(queue) - 1)
        /\ popped' = Append(popped, nodes[cur + 1].pathname)
        /\ IF short \in DOMAIN wantSums
             THEN IF Len(wantSums[short]) > 0
                    THEN /\ DigestEnter(vendorPathname, short)
                         /\ caller' = "VerifyDepTree"
                         /\ digested' = (short :> NoSum) @@ digested
                         /\ pc' = "Lstat"
                         /\ UNCHANGED <<status, nodes>>
                    ELSE /\ status' = (short :> EmptyDigestInLock) @@ status
                         /\ nodes' = MarkRequired(nodes, nodes[cur + 1].myIndex)
                         /\ pc' = "pop"
                         /\ UNCHANGED <<prefix, pathnameQueue, pathname, h,
                                        written, caller, digested>>
             ELSE /\ pc' = "open"
                  /\ UNCHANGED <<prefix, pathnameQueue, pathname, h, written,
                                 caller, digested, status, nodes>>
  /\ UNCHANGED <<fs, fh, ret, readerVars, err, faults, failed, vendorPathname,
                 wantSums, childrenNames, vret, listed>>

\* lines 380-397: DigestFromPathname has returned
VerifyDigested ==
  /\ pc = "digested"
  /\ caller' = ""
  /\ digested' = (Short(nodes[currentNode + 1]) :> ret.sum) @@ digested
  /\ IF ret.err # Nil
       THEN /\ VerifyReturnErr(ErrDigest)
            /\ UNCHANGED <<status, nodes>>
       ELSE LET short == Short(nodes[currentNode + 1])
            IN /\ status' = (short :> DigestStatus(ret.sum, wantSums[short]))
                              @@ status
               /\ nodes' = MarkRequired(nodes, nodes[currentNode + 1].myIndex)
               /\ pc' = "pop"
               /\ vret' = vret
  /\ UNCHANGED <<fs, digestVars, readerVars, h, written, err, faults, failed,
                 vendorPathname, wantSums, queue, currentNode, childrenNames,
                 popped, listed>>

\* lines 277-280: sortedListOfDirectoryChildrenFromPathname opens the
\* directory of the current node
ListOpen ==
  /\ pc = "open"
  /\ LET dir == nodes[currentNode + 1].pathname
     IN \E ok \in Outcomes :
          IF ok /\ Stat(fs, dir) # NoNode
            THEN /\ fh' = fh \cup {dir}
                 /\ listed' = listed \cup {dir}
                 /\ pc' = "readdir"
                 /\ UNCHANGED <<vret, faults, failed>>
            ELSE /\ VerifyReturnErr(ErrOpen)
                 /\ failed' = failed \cup {"Open"}
                 /\ faults' = IF ok THEN faults ELSE faults + 1
                 /\ UNCHANGED <<fh, listed>>
  /\ UNCHANGED <<fs, prefix, pathnameQueue, pathname, ret, readerVars, h,
                 written, err, caller, vendorPathname, wantSums, status, nodes,
                 queue, currentNode, childrenNames, digested, popped>>

\* lines 282 and 296-305: the open directory is listed, in any order, and
\* the names are sorted
ListReaddir ==
  /\ pc = "readdir"
  /\ pc' = "close"
  /\ LET dir == nodes[currentNode + 1].pathname
     IN \E ok \in Outcomes :
          IF ok
            THEN /\ \E names \in Orders(ChildrenOf(fs,
                                          Real(fs, dir, TRUE, MaxHops))) :
                      childrenNames' = SortStrings(names)
                 /\ err' = Nil
                 /\ UNCHANGED <<faults, failed>>
            ELSE /\ childrenNames' = <<>>
                 /\ err' = ErrReaddirnames
                 /\ Fail("Readdirnames")
  /\ UNCHANGED <<fs, digestVars, readerVars, h, written, caller,
                 vendorPathname, wantSums, status, nodes, queue, currentNode,
                 vret, digested, popped, listed>>

\* lines 284-290 and 400-403: the directory is closed; an error of the
\* listing or of Close ends the call
ListClose ==
  /\ pc = "close"
  /\ \E ok \in CloseOutcomes :
       LET e == CloseErr(err, IF ok THEN Nil ELSE ErrClose)
       IN /\ fh' = fh \ {nodes[currentNode + 1].pathname}
          /\ err' = e
          /\ IF ok THEN UNCHANGED <<faults, failed>> ELSE Fail("Close")
          /\ IF e # Nil THEN VerifyReturnErr(e)
                        ELSE pc' = "child" /\ vret' = vret
  /\ UNCHANGED <<fs, prefix, pathnameQueue, pathname, ret, readerVars, h,
                 written, caller, vendorPathname, wantSums, status, nodes,
                 queue, currentNode, childrenNames, digested, popped, listed>>

\* lines 404-432: the next child of the listing is looked at with Stat and
\* appended to the nodes, and to the queue when it is a directory; after the
\* last child the walk goes on
VerifyChild ==
  /\ pc = "child"
  /\ IF childrenNames = <<>>
       THEN /\ pc' = "pop"
            /\ UNCHANGED <<childrenNames, nodes, queue, vret, faults, failed>>
       ELSE LET childName == Head(childrenNames)
                childPathname == Join(nodes[currentNode + 1].pathname, childName)
            IN /\ childrenNames' = Tail(childrenNames)
               /\ IF childName \in SkipNames
                    THEN /\ pc' = "child"
                         /\ UNCHANGED <<nodes, queue, vret, faults, failed>>
                    ELSE \E ok \in Outcomes :
                      IF ~ok \/ Stat(fs, childPathname) = NoNode
                        THEN /\ VerifyReturnErr(ErrStat)
                             /\ failed' = failed \cup {"Stat"}
                             /\ faults' = IF ok THEN faults ELSE faults + 1
                             /\ UNCHANGED <<nodes, queue>>
                        ELSE /\ pc' = "child"
                             /\ UNCHANGED <<vret, faults, failed>>
                             /\ IF Stat(fs, childPathname).kind
                                     \in {"device", "symlink"}
                                  THEN UNCHANGED <<nodes, queue>>
                                  ELSE /\ nodes' = Append(nodes,
                                            [pathname |-> childPathname,
                                             isRequiredAncestor |-> FALSE,
                                             myIndex |-> Len(nodes),
                                             parentIndex |->
                                               nodes[currentNode + 1].myIndex])
                                       /\ queue' =
                                            IF Stat(fs, childPathname).kind = "dir"
                                              THEN Append(queue, Len(nodes))
                                              ELSE queue
  /\ UNCHANGED <<fs, digestVars, readerVars, h, written, err, caller,
                 vendorPathname, wantSums, status, currentNode, digested,
                 popped, listed>>

\* lines 435-445: the queue is empty; the nodes that are not required and
\* have a required parent are reported and the status map is returned
VerifyReport ==
  /\ pc = "pop"
  /\ queue = <<>>
  /\ status' = Report(status, nodes, Len(nodes) - 1)
  /\ VerifyReturn(Report(status, nodes, Len(nodes) - 1), Nil)
  /\ UNCHANGED <<fs, digestVars, readerVars, h, written, err, faults, failed,
                 caller, vendorPathname, wantSums, nodes, queue, currentNode,
                 childrenNames, digested, popped, listed>>

NextVerify ==
  \/ VerifyStat
  \/ VerifyPop
  \/ VerifyDigested
  \/ ListOpen
  \/ ListReaddir
  \/ ListClose
  \/ VerifyChild
  \/ VerifyReport
  \/ DigestLstat
  \/ DigestReadlink
  \/ DigestOpen
  \/ DigestReaddir
  \/ CopyRead
  \/ DigestWritten
  \/ DigestClose

SpecVerify == InitVerify /\ [][NextVerify]_vars

\* ------------------------------------------------------ reference functions
\* one-pass normaliser: every CR LF becomes LF, anything else is kept
RECURSIVE Norm(_)
Norm(s) ==
  IF s = <<>> THEN <<>>
  ELSE IF Len(s) >= 2 /\ s[1] = CR /\ s[2] = LF
         THEN <<LF>> \o Norm(Slice(s, 2, Len(s)))
         ELSE <<s[1]>> \o Norm(Tail(s))

\* the output of a reader that is given s in a single read and then io.EOF
OneRead(s) ==
  LET r1 == Read(FALSE, s, Nil)
      r2 == Read(r1.prevReadEndedCR, <<>>, EOF)
  IN r1.bytes \o r2.bytes

\* s with every LF replaced by CR LF
RECURSIVE ToCRLF(_)
ToCRLF(s) ==
  IF s = <<>> THEN <<>>
  ELSE (IF s[1] = LF THEN <<CR, LF>> ELSE <<s[1]>>) \o ToCRLF(Tail(s))

\* s without its CR bytes
WithoutCR(s) == SelectSeq(s, LAMBDA b : b # CR)

\* what the digest of a regular file named name with normalised content c
\* writes to the hash
FileFeed(name, c) == name \o <<NUL>> \o c \o FormatInt(Len(c)) \o <<NUL>>

\* the copy has ended at the end of the stream
CopyEnded == pc = "copied" /\ err = Nil

\* ------------------------------------------------------------------ claims

\* C1: read to the end of the stream through a buffer of at least 2 bytes,
\* whatever the fragmentation, the reader returns the input with every CR LF
\* replaced by LF and everything else unchanged.  Stated for sources that
\* behave as a file does; the claim covers every source.
C1_ReadNormalises ==
  (CopyEnded /\ srcKind = "file" /\ failed = {} /\ bufSize >= 2)
    => h = Norm(src)

\* C6: an input delivered in two reads split between the CR and the LF of a
\* pair gives the output of the same input delivered in one read.
C6_SplitPairSameAsOneRead ==
  (/\ CopyEnded /\ srcKind = "file" /\ failed = {}
   /\ bufSize >= Len(src)
   /\ nreads = 2 /\ firstRead < Len(src)
   /\ src[firstRead] = CR /\ src[firstRead + 1] = LF)
    => h = OneRead(src)

\* C7: when the caller is told the end of the stream, no CR is still
\* withheld: every byte taken from the source was delivered or was the CR
\* of a CR LF pair, whatever way the source signals its end.
C7_NoByteDroppedAtEOF ==
  (CopyEnded /\ failed = {})
    => (~prevReadEndedCR /\ Len(h) + removed = pos)

\* C8: without I/O failure, a regular file whose content is L (no CR) and the
\* file whose content is L with CR LF for every LF write the same bytes to
\* the hash: the name, L, and the decimal length of L.
C8_LineEndingIndependent ==
  LET a == Join(PrefixP, NameA)
  IN (/\ pc = "done" /\ failed = {}
      /\ a \in DOMAIN fs /\ fs[a].kind = "file"
      /\ fs[a].data \in {WithoutCR(fs[a].data), ToCRLF(WithoutCR(fs[a].data))})
       => /\ h = FileFeed(NameA, WithoutCR(fs[a].data))
          /\ ret = [sum |-> Sum(FileFeed(NameA, WithoutCR(fs[a].data))),
                    err |-> Nil]

\* C8 witness: a file with CR LF line endings was digested with a read that
\* ended between a CR and its LF.
C8_Witness ==
  LET a == Join(PrefixP, NameA)
  IN /\ pc = "done" /\ failed = {}
     /\ a \in DOMAIN fs /\ fs[a].kind = "file"
     /\ fs[a].data = ToCRLF(WithoutCR(fs[a].data))
     /\ fs[a].data # WithoutCR(fs[a].data)
     /\ nreads = 2 /\ fs[a].data[firstRead] = CR
     /\ Len(fs[a].data) = 4

\* C9: when an operation of DigestFromPathname has failed, the call returns
\* an error and no digest.
C9_FailureSurfaces ==
  (pc = "done" /\ failed # {}) => (ret.err # Nil /\ ret.sum = NoSum)

\* VerifyDepTree has returned a status map
Verified == pc = "returned" /\ vret.err = Nil

\* relative path p is a proper ancestor of relative path q
ProperAncestor(p, q) ==
  Len(p) < Len(q) /\ SubSeq(q, 1, Len(p) + 1) = p \o <<Slash>>

InLockStatuses == {NoMismatch, EmptyDigestInLock, DigestMismatchInLock}

\* the relative paths of the nodes popped from the queue
PoppedShorts ==
  { Slice(popped[i], Len(vendorPathname), Len(popped[i])) :
      i \in DOMAIN popped }

\* C2: in the status map returned, every key of the lock has a status other
\* than NotInLock, whatever is on disk at its path.
C2_KeysNeverNotInLock ==
  Verified =>
    \A k \in DOMAIN wantSums :
      /\ k \in DOMAIN vret.status
      /\ vret.status[k] \in {NotInTree} \cup InLockStatuses

\* C3: in the status map returned, no path reported NotInLock is a proper
\* ancestor of another path reported NotInLock or of a key of the lock that
\* was found.
C3_MinimalReporting ==
  Verified =>
    \A p \in DOMAIN vret.status : \A q \in DOMAIN vret.status :
      (vret.status[p] = NotInLock /\ ProperAncestor(p, q))
        => /\ vret.status[q] # NotInLock
           /\ ~(q \in DOMAIN wantSums /\ vret.status[q] \in InLockStatuses)

\* C3 witness: the lock names a/b only, a/b and a/d are on disk, and the map
\* returned has a/b as found and a/d as NotInLock, and no entry for a.
C3_Witness ==
  /\ Verified
  /\ DOMAIN wantSums = {Join(NameA, NameB)}
  /\ Join(NameA, NameB) \in DOMAIN vret.status
  /\ vret.status[Join(NameA, NameB)] = NoMismatch
  /\ Join(NameA, NameD) \in DOMAIN vret.status
  /\ vret.status[Join(NameA, NameD)] = NotInLock
  /\ NameA \notin DOMAIN vret.status

\* C4: in the status map returned, a key of the lock is NotInTree exactly
\* when there is no directory at its path under the vendor root.
C4_NotInTreeIffNoDirectory ==
  Verified =>
    \A k \in DOMAIN wantSums :
      (vret.status[k] = NotInTree)
        <=> (Stat(fs, Join(VendorRoot, k)).kind # "dir")

\* C5: for a key of the lock whose directory the walk has popped: with an
\* empty expected digest the status is EmptyDigestInLock and no digest was
\* computed for it; otherwise a digest was computed and the status is
\* NoMismatch when it equals the expected one, DigestMismatchInLock when not.
C5_StatusOfVisitedKey ==
  Verified =>
    \A k \in DOMAIN wantSums \cap PoppedShorts :
      IF Len(wantSums[k]) = 0
        THEN vret.status[k] = EmptyDigestInLock /\ k \notin DOMAIN digested
        ELSE /\ k \in DOMAIN digested
             /\ digested[k] # NoSum
             /\ (vret.status[k] = NoMismatch) <=> (digested[k] = wantSums[k])
             /\ (vret.status[k] = DigestMismatchInLock)
                  <=> (digested[k] # wantSums[k])

\* C5 witness: one walk has found a key with an empty expected digest, for
\* which no digest was computed, and a key whose computed digest matches.
C5_Witness ==
  /\ Verified
  /\ \E k \in DOMAIN wantSums :
       vret.status[k] = EmptyDigestInLock /\ k \notin DOMAIN digested
  /\ \E k \in DOMAIN wantSums :
       vret.status[k] = NoMismatch /\ digested[k] = wantSums[k]

\* the failures VerifyDepTree cannot survive: of its own operations, and of
\* a call of DigestFromPathname
VerifyFailed ==
  \/ failed \cap {"Stat", "Open", "Readdirnames", "Close", "Lstat",
                  "Readlink"} # {}
  \/ \E k \in DOMAIN digested : digested[k] = NoSum

\* C10: VerifyDepTree returns a status map or an error and never both; a
\* vendor root that is no directory fails before anything is listed or
\* digested; a failed operation or digest ends the call with an error.
C10_NeverPartial ==
  pc = "returned" =>
    /\ vret.isNil # (vret.err = Nil)
    /\ Stat(fs, VendorRoot).kind # "dir"
         => (vret.err # Nil /\ listed = {} /\ DOMAIN digested = {})
    /\ VerifyFailed => (vret.err # Nil /\ vret.isNil)

\* C10 witness: a Close failed after a project had been found and its
\* status recorded, and the call returned the error and no map.
C10_Witness ==
  /\ pc = "returned"
  /\ failed = {"Close"}
  /\ \E k \in DOMAIN status : status[k] \in InLockStatuses
  /\ vret = [status |-> << >>, isNil |-> TRUE, err |-> ErrClose]

\* C11: a child of a walked directory that is a symbolic link or a device is
\* never appended to the nodes, and so never queued or reported, and does not
\* make the call fail: with no operation failing, the walk of a vendor
\* directory returns a status map.
C11_SpecialChildrenSkipped ==
  /\ \A i \in DOMAIN nodes :
       Lstat(fs, Clean(nodes[i].pathname)).kind \notin {"symlink", "device"}
  /\ (pc = "returned" /\ faults = 0 /\ Stat(fs, VendorRoot).kind = "dir")
       => vret.err = Nil

\* -------------------------------- DigestFromPathname under other prefixes
\* the prefixes a tree is digested under: a directory, a deeper directory
\* named with a trailing separator, and the root of the file system
Prefixes == {PrefixP, <<Slash, 113, 113, Slash>>, <<Slash>>}

\* the name of p relative to the directory pre, a clean rooted name
RelName(pre, p) ==
  SubSeq(p, (IF pre = <<Slash>> THEN 1 ELSE Len(pre) + 1) + 1, Len(p))

\* the file system that has under directory to what files has under
\* directory from
Relocate(files, from, to) ==
  LET Move(p) == Join(to, RelName(from, p))
  IN [q \in { Move(p) : p \in DOMAIN files } |->
        files[CHOOSE p \in DOMAIN files : Move(p) = q]]

\* DigestFromPathname(pre, a) for a prefix pre that holds one of the trees
InitRelocated ==
  /\ pc = "Lstat"
  /\ \E pre \in Prefixes : \E f \in DigestFileSystems :
       /\ fs = Relocate(f, PrefixP, Clean(pre))
       /\ prefix = Clean(pre) \o pathSeparator
       /\ pathnameQueue = <<Join(Clean(pre) \o pathSeparator, NameA)>>
  /\ pathname = NameA
  /\ fh = {}
  /\ ret = [sum |-> NoSum, err |-> Nil]
  /\ src = <<>>
  /\ srcKind = "file"
  /\ pos = 0
  /\ prevReadEndedCR = FALSE
  /\ bufSize \in CopyBufSizes
  /\ h = <<>>
  /\ written = 0
  /\ err = Nil
  /\ nreads = 0
  /\ firstRead = 0
  /\ removed = 0
  /\ faults = 0
  /\ failed = {}
  /\ NoVerify

SpecRelocated == InitRelocated /\ [][NextDigest]_vars

\* ---------------------------------------------------- reference digest feed
\* the elements of the path name p
Components(p) ==
  { SubSeq(p, x[1], x[2]) :
      x \in { x \in (1..Len(p)) \X (1..Len(p)) :
                /\ x[1] <= x[2]
                /\ (x[1] = 1 \/ p[x[1] - 1] = Slash)
                /\ (x[2] = Len(p) \/ p[x[2] + 1] = Slash)
                /\ \A k \in x[1]..x[2] : p[k] # Slash } }

\* files without the nodes that are, or are beneath, a child with a skipped
\* name of a directory at or beneath root
Prune(files, root) ==
  [p \in { p \in DOMAIN files :
             Components(RelName(root, p)) \cap SkipNames = {} } |-> files[p]]

\* the names of a directory in sorted order
SortedNames(S) == SortStrings(CHOOSE o \in Orders(S) : TRUE)

\* What a breadth-first walk in sorted order of the nodes of files queued in
\* q adds to hash: for each node but a device its name relative to pre and
\* the separator, then for a symbolic link its referent, for a file its
\* normalised content and the length of that, each with the separator; the
\* entries of a directory are queued.
RECURSIVE RefFeed(_, _, _, _)
RefFeed(files, pre, q, hash) ==
  IF q = <<>> THEN hash
  ELSE LET n == Head(q)
           node == files[n]
           named == writeBytesWithNull(hash, ToSlash(RelName(pre, n)))
           names == SortedNames(ChildrenOf(files, n))
       IN CASE node.kind = "device" -> RefFeed(files, pre, Tail(q), hash)
            [] node.kind = "symlink" ->
                 RefFeed(files, pre, Tail(q),
                         writeBytesWithNull(named, ToSlash(node.data)))
            [] node.kind = "dir" ->
                 RefFeed(files, pre,
                         Tail(q) \o [i \in 1..Len(names) |-> Join(n, names[i])],
                         named)
            [] node.kind = "file" ->
                 RefFeed(files, pre, Tail(q),
                         writeBytesWithNull(named \o Norm(node.data),
                                            FormatInt(Len(Norm(node.data)))))

\* the bytes the digest of the tree at pre/name is made of
TreeFeed(files, pre, name) == RefFeed(files, pre, <<Join(pre, name)>>, <<>>)

\* the clean name of the directory the running digest has as its prefix
CleanPrefix == Clean(prefix)

\* C12: the bytes fed to the hash are those of the same tree under the fixed
\* prefix /p listed in sorted order, whatever prefix the tree is digested
\* under and whatever order the directories are listed in; so is the sum.
C12_PrefixAndOrderIndependent ==
  (pc = "done" /\ failed = {})
    => LET canon == Relocate(fs, CleanPrefix, PrefixP)
           feed == TreeFeed(Prune(canon, Join(PrefixP, NameA)), PrefixP, NameA)
       IN h = feed /\ ret = [sum |-> Sum(feed), err |-> Nil]

\* the root of the tree digested by DigestFromPathname(/p, a)
DigestRoot == Join(PrefixP, NameA)

\* the path names the running digest has in hand: the one being processed,
\* those queued and those of the open handles
InHand ==
  (IF pathname = NameA THEN {} ELSE {pathname})
    \cup { pathnameQueue[i] : i \in DOMAIN pathnameQueue } \cup fh

\* C13: no node that is, or is beneath, a child named vendor, .bzr, .git, .hg
\* or .svn is ever queued, processed or opened, and the bytes fed to the hash
\* and the sum returned are those of the tree without such children.
C13_SkippedNamesUntouched ==
  /\ \A p \in InHand : Components(RelName(DigestRoot, p)) \cap SkipNames = {}
  /\ (pc = "done" /\ failed = {})
       => /\ h = TreeFeed(Prune(fs, DigestRoot), PrefixP, NameA)
          /\ ret = [sum |-> Sum(TreeFeed(Prune(fs, DigestRoot), PrefixP, NameA)),
                    err |-> Nil]

\* C13 witness: a directory that holds only a directory .hg, itself not
\* empty, was digested and fed what an empty directory feeds.
C13_Witness ==
  /\ pc = "done" /\ failed = {}
  /\ ChildrenOf(fs, DigestRoot) = {NameHg}
  /\ ChildrenOf(fs, Join(DigestRoot, NameHg)) # {}
  /\ h = writeBytesWithNull(<<>>, NameA)

\* the trees that differ from files in the node at l only, which is another
\* symbolic link or a regular file
LinkVariants(files, l) ==
  { f \in DigestFileSystems :
      /\ DOMAIN f = DOMAIN files
      /\ \A p \in DOMAIN files \ {l} : f[p] = files[p]
      /\ f[l] # files[l]
      /\ f[l].kind \in {"symlink", "file"} }

\* C14: a symbolic link is a leaf: it is never opened, nothing is queued
\* beneath it, and its name and its referent are fed to the hash; and a tree
\* that differs only in the referent of the link, or has a regular file in
\* its place, feeds other bytes.
C14_SymlinkIsLeaf ==
  /\ \A p \in fh : Lstat(fs, p).kind # "symlink"
  /\ \A p \in InHand :
       p # DigestRoot => Lstat(fs, DirOf(p)).kind = "dir"
  /\ (pc = "done" /\ failed = {})
       => \A l \in { l \in DOMAIN fs : fs[l].kind = "symlink" } :
            /\ h = TreeFeed(Prune(fs, DigestRoot), PrefixP, NameA)
            /\ \A f \in LinkVariants(fs, l) :
                 h # TreeFeed(Prune(f, DigestRoot), PrefixP, NameA)

\* a regular file holds the only entry of the root of the digested tree
OneFileTree(files) ==
  /\ DigestRoot \in DOMAIN files /\ files[DigestRoot].kind = "dir"
  /\ \E n \in ChildrenOf(files, DigestRoot) :
       /\ ChildrenOf(files, DigestRoot) = {n}
       /\ files[Join(DigestRoot, n)].kind = "file"

\* the name and the normalised content of the file of a one-file tree
OneFile(files) ==
  LET n == CHOOSE n \in ChildrenOf(files, DigestRoot) : TRUE
  IN <<n, Norm(files[Join(DigestRoot, n)].data)>>

OnDisk ==
  { RelName(VendorRoot, p) :
      p \in { p \in DOMAIN fs :
                /\ Len(p) > Len(VendorRoot) + 1
                /\ SubSeq(p, 1, Len(VendorRoot) + 1) = VendorRoot \o <<Slash>>
                /\ fs[p].kind \in {"dir", "file"}
                /\ Components(RelName(VendorRoot, p)) \cap SkipNames = {} } }

\* the keys of the lock that have a directory on disk
KeyDirs ==
  { k \in DOMAIN wantSums : Lstat(fs, Join(VendorRoot, k)).kind = "dir" }

\* the paths of the lock's directories, of what they hold and of what
\* holds them
InLockPaths ==
  { p \in OnDisk : \E k \in KeyDirs :
      p = k \/ ProperAncestor(k, p) \/ ProperAncestor(p, k) }

\* p and the proper ancestors of p that the status map reports NotInLock
ReportedOver(p) ==
  { q \in DOMAIN vret.status :
      /\ vret.status[q] = NotInLock
      /\ (q = p \/ ProperAncestor(q, p)) }

\* C16: in the status map returned, every directory and regular file on
\* disk that is not a directory of the lock, nor within one, nor an ancestor
\* of one, is reported NotInLock or has exactly one proper ancestor that is,
\* and never both.
C16_ExtraneousCovered ==
  Verified =>
    \A p \in OnDisk \ InLockPaths : Cardinality(ReportedOver(p)) = 1

\* C16 witness: the lock names a/b only; a/b and a/d are on disk and so is
\* the directory c with a file in it: a/d and c are reported NotInLock, the
\* file in c is covered by c and has no entry.
C16_Witness ==
  /\ Verified
  /\ KeyDirs = {Join(NameA, NameB)}
  /\ {Join(NameA, NameD), NameC, Join(NameC, NameC)} \subseteq OnDisk \ InLockPaths
  /\ vret.status[Join(NameA, NameD)] = NotInLock
  /\ vret.status[NameC] = NotInLock
  /\ Join(NameC, NameC) \notin DOMAIN vret.status

\* the positions of the two calls at which no node is being processed
BetweenNodes == {"Lstat", "Readlink", "done", "digested", "pop", "open",
                 "child", "returned"}

\* C17: at most one handle is open at any time and none between two nodes
\* or at a return; when a read or a listing has failed the error returned is
\* that failure, and the error of Close is returned only when nothing else
\* has failed.
C17_HandlesScopedFirstErrorWins ==
  /\ Cardinality(fh) <= 1
  /\ pc \in BetweenNodes => fh = {}
  /\ (pc = "digested" /\ "Read" \in failed) => ret.err = ErrRead
  /\ (pc = "digested" /\ "Readdirnames" \in failed) => ret.err = ErrReaddirnames
  /\ (pc = "digested" /\ ret.err = ErrClose) => failed = {"Close"}
  /\ (pc = "returned" /\ "Readdirnames" \in failed)
       => vret.err \in {ErrReaddirnames, ErrDigest}
  /\ (pc = "returned" /\ vret.err = ErrClose) => failed = {"Close"}

\* the directories the walk is to visit: the vendor root and the directories
\* beneath it reached through child names that are not skipped and are not
\* symbolic links, without passing through a directory of the lock
ToVisit ==
  { p \in DOMAIN fs :
      /\ fs[p].kind = "dir"
      /\ \/ p = VendorRoot
         \/ /\ Len(p) > Len(VendorRoot) + 1
            /\ SubSeq(p, 1, Len(VendorRoot) + 1) = VendorRoot \o <<Slash>>
            /\ Components(RelName(VendorRoot, p)) \cap SkipNames = {}
            /\ \A k \in DOMAIN wantSums :
                 ~ProperAncestor(k, RelName(VendorRoot, p)) }

\* C18: when the walk has ended, the nodes popped are exactly the directories
\* to visit, each popped once, and nothing beneath a directory of the lock
\* was listed or made a node.
C18_VisitsEachDirectoryOnce ==
  /\ Verified =>
       /\ { Clean(popped[i]) : i \in DOMAIN popped } = ToVisit
       /\ \A i \in DOMAIN popped : \A j \in DOMAIN popped :
            popped[i] = popped[j] => i = j
  /\ \A k \in DOMAIN wantSums :
       /\ \A d \in listed : ~ProperAncestor(k, RelName(VendorRoot, d))
                            /\ k # RelName(VendorRoot, Clean(d))
       /\ \A i \in DOMAIN nodes :
            ~ProperAncestor(k, RelName(VendorRoot, nodes[i].pathname))

\* the keys of the lock whose node the walk has popped
VisitedKeys == DOMAIN wantSums \cap PoppedShorts

\* the array of nodes is well formed
NodesWellFormed ==
  \A i \in DOMAIN nodes :
    /\ nodes[i].myIndex = i - 1
    /\ IF i = 1 THEN nodes[i].parentIndex = -1 /\ nodes[i].isRequiredAncestor
                ELSE nodes[i].parentIndex \in 0..(i - 2)

\* a step appends to the nodes or leaves them, and changes no more of a node
\* than its flag, from false to true
NodesStep ==
  nodes # <<>> =>
    /\ Len(nodes') >= Len(nodes)
    /\ \A i \in DOMAIN nodes :
         /\ nodes'[i].pathname = nodes[i].pathname
         /\ nodes'[i].myIndex = nodes[i].myIndex
         /\ nodes'[i].parentIndex = nodes[i].parentIndex
         /\ nodes[i].isRequiredAncestor => nodes'[i].isRequiredAncestor

\* at the end of the walk the required nodes are the root, the visited keys
\* of the lock and their proper ancestors
RequiredAtEnd ==
  Verified =>
    \A i \in DOMAIN nodes :
      nodes[i].isRequiredAncestor <=>
        \/ i = 1
        \/ \E k \in VisitedKeys :
             \/ Short(nodes[i]) = k
             \/ ProperAncestor(Short(nodes[i]), k)

\* C19: the array of nodes is well formed in every state, it only grows and
\* a flag only goes from false to true, and when the walk ends a node is
\* required exactly when it is the root, a visited key of the lock or a proper
\* ancestor of one.
C19_NodesAndRequiredFlags ==
  [](NodesWellFormed /\ RequiredAtEnd) /\ [][NodesStep]_vars

\* C19 witness: the walk has ended with a key two levels down visited, its
\* parent required, and a sibling that is not.
C19_Witness ==
  /\ Verified
  /\ Join(NameA, NameB) \in VisitedKeys
  /\ \E i \in DOMAIN nodes : \E j \in DOMAIN nodes : \E l \in DOMAIN nodes :
       /\ Short(nodes[i]) = NameA /\ nodes[i].isRequiredAncestor
       /\ Short(nodes[j]) = Join(NameA, NameB) /\ nodes[j].parentIndex = i - 1
       /\ Short(nodes[l]) = Join(NameA, NameD) /\ ~nodes[l].isRequiredAncestor

\* the bytes Read holds back between two calls
Withheld == IF prevReadEndedCR THEN 1 ELSE 0

\* C20: whatever the source returns to the next Read, the request is for no
\* less than zero and no more than len(buf) bytes, the buffer with the CR put
\* back fits in buf, and the count returned is within 0..len(buf); between
\* calls the bytes taken from the source are those delivered, the CRs
\* removed and at most one byte held back, a CR, held back exactly when
\* prevReadEndedCR is set.
C20_BufferSafety ==
  /\ pc = "copy" =>
       /\ ReadRequest(prevReadEndedCR, bufSize) \in 0..bufSize
       /\ \A r \in SrcRead(srcKind, src, pos,
                           ReadRequest(prevReadEndedCR, bufSize), faults) :
            /\ Len(r.data) <= ReadRequest(prevReadEndedCR, bufSize)
            /\ Len(r.data) > 0
                 => Len(InsertCR(prevReadEndedCR, r.data)) <= bufSize
            /\ Len(Read(prevReadEndedCR, r.data, r.er).bytes) \in 0..bufSize
  /\ Len(h) + removed + Withheld = pos
  /\ prevReadEndedCR => (pos >= 1 /\ src[pos] = CR)

\* C20 witness: a reader with a buffer of one byte is holding back a CR, so
\* that its next request to the source is for no byte at all.
C20_Witness ==
  /\ pc = "copy" /\ bufSize = 1 /\ prevReadEndedCR /\ nreads >= 2
  /\ ReadRequest(prevReadEndedCR, bufSize) = 0

====
